---------------------------- MODULE Spec2Model ----------------------------
(***************************************************************************)
(* OAuth 2.0 authorization-code callback of the Google Sheets MCP server   *)
(* (app/api/oauth/callback/route.ts): the process-wide state map           *)
(* global.oauthStates, the callback handler GET and the token endpoint it  *)
(* calls.  A Node process runs one handler at a time and switches between  *)
(* handlers only at an await, so every action below is the code between    *)
(* two awaits of GET.                                                      *)
(***************************************************************************)
EXTENDS Integers, Sequences, FiniteSets, TLC

(***************************************************************************)
(* Bounds of the model.                                                    *)
(***************************************************************************)
NumReqs == 2        \* callback requests handled in one behaviour
MaxTicks == 2       \* advances of the clock in one behaviour

(***************************************************************************)
(* Values.                                                                 *)
(***************************************************************************)
Reqs == 1..NumReqs
Null == "<null>"                       \* searchParams.get of an absent parameter
Truthy(x) == x \notin {Null, ""}       \* JavaScript truthiness of string | null

StateSeq == <<"s1", "s2">>             \* state tokens, in order of generation
VerifierSeq == <<"v1", "v2">>          \* PKCE code verifiers, likewise
States == {StateSeq[k] : k \in DOMAIN StateSeq}
Verifiers == {VerifierSeq[k] : k \in DOMAIN VerifierSeq}
CodeParams == {Null, "", "c1"}
StateParams == {Null, ""} \cup States
ErrorParams == {Null, "", "access_denied"}
DescParams == {Null, "denied by user"}
\* error_description accompanies a non-empty error only (RFC 6749, 4.1.2.1)
DescParamsWith(error) == IF error \in {Null, ""} THEN {Null} ELSE DescParams
EnvValues(v) == {Null, v}              \* process.env.X: unset or set

TTL == 10 * 60 * 1000                  \* milliseconds
TickSteps == {1, TTL}                  \* amounts by which the clock advances

TokenEndpoint == "https://api.anthropic.com/oauth/token"
DefaultRedirectUri == "http://localhost:3000/api/oauth/callback"

Undefined == [undefined |-> TRUE]      \* result of Map.get on a missing key
NoResponse == [status |-> 0, body |-> [pending |-> TRUE]]

(***************************************************************************)
(* Values of the /api/mcp route.  A header value or key is a sequence of   *)
(* pieces: the literal "Bearer " and pieces of key material.               *)
(***************************************************************************)
MaxHeaderLen == 2   \* pieces in one header value

StrNull == <<"<null>">>                \* headers.get of an absent header; unset env
StrTruthy(x) == x \notin {StrNull, << >>}
BearerPrefix == "Bearer "
HeaderAtoms == {BearerPrefix, "k1", "k2"}
HeaderValues ==
  {StrNull} \cup UNION {[1..m -> HeaderAtoms] : m \in 0..MaxHeaderLen}
McpApiKeys == {StrNull, << >>, <<"k1">>}
NoMcpRequest ==
  [received |-> FALSE, authorization |-> StrNull, xApiKey |-> StrNull,
   status |-> 0, handlerCalls |-> 0]

(***************************************************************************)
(* Values of the MCP tools.                                                *)
(***************************************************************************)
MaxCalls == 2       \* tool calls in one behaviour

ScriptUrls == {Null, "", "https://script.google.com/exec"}
SecretKeys == {Null, "", "secret"}
Companies == {"Acme"}
Roles == {"SRE"}
Descriptions == {Null, "", "build things"}   \* optional: undefined, "" or text
Dates == {Null, "11/04/2026"}
Sources == {Null, "LinkedIn"}
JobTypes == {Null, "DevOps"}
NoBody == [none |-> TRUE]              \* a request sent without a body
NoResult == [kind |-> "none", mark |-> "none", text |-> << >>]
NoToolCall ==
  [pc |-> "idle", tool |-> Null, args |-> NoBody, response |-> NoBody,
   result |-> NoResult]

VARIABLES
  oauthStatesDefined,  \* global.oauthStates is a Map (not undefined)
  oauthStates,         \* global.oauthStates: state -> {codeVerifier, timestamp}
  issued,              \* state tokens the initiator has generated so far
  now,                 \* Date.now()
  ticks,               \* number of clock advances so far
  clientId,            \* process.env.OAUTH_CLIENT_ID
  clientSecret,        \* process.env.OAUTH_CLIENT_SECRET
  reqs,                \* per callback request: position and locals of GET
  exchanges,           \* POSTs sent to the token endpoint, in order
  mcpApiKey,           \* process.env.MCP_API_KEY
  mcp,                 \* the request to /api/mcp handled last
  scriptUrl,           \* process.env.SCRIPT_URL
  secretKey,           \* process.env.SECRET_KEY
  toolCalls,           \* number of tool calls started so far
  toolCall,            \* the tool call in progress or finished last
  webhook              \* requests sent to the Apps Script webhook, in order

toolVars == <<scriptUrl, secretKey, toolCalls, toolCall, webhook>>

vars == <<oauthStatesDefined, oauthStates, issued, now, ticks,
          clientId, clientSecret, reqs, exchanges, mcpApiKey, mcp,
          scriptUrl, secretKey, toolCalls, toolCall, webhook>>

IdleReq ==
  [pc |-> "idle", code |-> Null, state |-> Null, error |-> Null,
   description |-> Null, storedStateInfo |-> Undefined,
   tokenResponse |-> Undefined, errorData |-> Null,
   response |-> NoResponse, prior |-> {}]

(***************************************************************************)
(* Responses of GET, one per return statement.                             *)
(***************************************************************************)
OAuthErrorResponse(error, description) ==
  [status |-> 400,
   body |-> [error |-> "OAuth authorization failed", details |-> error,
             description |-> description]]

\* variant: the flags report presence instead of absence
MissingParamsResponsePresent(code, state) ==
  [status |-> 400,
   body |-> [error |-> "Missing required OAuth parameters",
             missing |-> [code |-> Truthy(code), state |-> Truthy(state)]]]

MissingParamsResponse(code, state) ==
  [status |-> 400,
   body |-> [error |-> "Missing required OAuth parameters",
             missing |-> [code |-> ~Truthy(code), state |-> ~Truthy(state)]]]

\* variant: the lookup is written without ?. and throws on an undefined store
InvalidStateResponseThrows ==
  [status |-> 500, body |-> [error |-> "Internal Server Error"]]

InvalidStateResponse ==
  [status |-> 400, body |-> [error |-> "Invalid or expired OAuth state"]]

\* variant: an expired state is answered like an unknown one
ExpiredStateResponseAsInvalid ==
  [status |-> 400, body |-> [error |-> "Invalid or expired OAuth state"]]

ExpiredStateResponse ==
  [status |-> 400, body |-> [error |-> "OAuth state expired"]]

NotConfiguredResponse ==
  [status |-> 500,
   body |-> [error |-> "OAuth not configured - missing client credentials"]]

TokenExchangeFailedResponse(tokenResponse, errorData) ==
  [status |-> 400,
   body |-> [error |-> "Token exchange failed",
             status |-> tokenResponse.status,
             details |-> errorData]]

SuccessResponse(tokenResult) ==
  [status |-> 200,
   body |-> [success |-> TRUE,
             message |-> "OAuth authorization successful!",
             tokens |-> tokenResult]]

CatchResponse(errorMessage) ==
  [status |-> 500,
   body |-> [error |-> "Failed to process OAuth callback",
             details |-> errorMessage]]

(***************************************************************************)
(* Parameter validation: the error parameter is tested first, then the     *)
(* presence of code and state.                                             *)
(***************************************************************************)
\* variant: the presence of code and state is tested before error
ValidateParamsMissingFirst(code, state, error) ==
  IF ~Truthy(code) \/ ~Truthy(state) THEN "MissingParams"
  ELSE IF Truthy(error) THEN "OAuthProviderError"
  ELSE "LookupState"

\* variant: only an absent parameter counts as missing
ValidateParamsNullOnly(code, state, error) ==
  IF Truthy(error) THEN "OAuthProviderError"
  ELSE IF code = Null \/ state = Null THEN "MissingParams"
  ELSE "LookupState"

ValidateParams(code, state, error) ==
  IF Truthy(error) THEN "OAuthProviderError"
  ELSE IF ~Truthy(code) \/ ~Truthy(state) THEN "MissingParams"
  ELSE "LookupState"

(***************************************************************************)
(* The state map.                                                          *)
(***************************************************************************)
\* variant: the lookup does not compare the key
MapGetIgnoresKey(state) ==
  IF oauthStatesDefined /\ DOMAIN oauthStates # {}
    THEN oauthStates[CHOOSE s \in DOMAIN oauthStates : TRUE]
    ELSE Undefined

\* global.oauthStates?.get(state)
MapGet(state) ==
  IF oauthStatesDefined /\ state \in DOMAIN oauthStates
    THEN oauthStates[state]
    ELSE Undefined

\* variant: the whole map is cleared
MapDeleteAll(state) == << >>

\* variant: the deletion is lost
MapDeleteNoop(state) == oauthStates

\* global.oauthStates.delete(state)
MapDelete(state) ==
  [s \in (DOMAIN oauthStates) \ {state} |-> oauthStates[s]]

\* variant: the comparison is the wrong way round
IsExpiredInverted(storedStateInfo, dateNow) ==
  storedStateInfo.timestamp > dateNow - TTL

\* variant: an entry whose age is exactly the TTL counts as expired
IsExpiredInclusive(storedStateInfo, dateNow) ==
  storedStateInfo.timestamp <= dateNow - TTL

\* tenMinutesAgo = Date.now() - (10 * 60 * 1000); timestamp < tenMinutesAgo
IsExpired(storedStateInfo, dateNow) ==
  storedStateInfo.timestamp < dateNow - TTL

\* variant: only the client id is required
MissingCredentialsIdOnly(id, secret) == ~Truthy(id)

\* if (!clientId || !clientSecret)
MissingCredentials(id, secret) == ~Truthy(id) \/ ~Truthy(secret)

\* variant: the verifier is taken from an entry other than the one looked up
TokenDataOtherVerifier(code, storedStateInfo) ==
  [grant_type |-> "authorization_code",
   client_id |-> clientId,
   client_secret |-> clientSecret,
   code |-> code,
   redirect_uri |-> DefaultRedirectUri,
   code_verifier |->
     oauthStates[CHOOSE s \in DOMAIN oauthStates : TRUE].codeVerifier]

\* the form body of the token request
TokenData(code, storedStateInfo) ==
  [grant_type |-> "authorization_code",
   client_id |-> clientId,
   client_secret |-> clientSecret,
   code |-> code,
   redirect_uri |-> DefaultRedirectUri,
   code_verifier |-> storedStateInfo.codeVerifier]

(***************************************************************************)
(* Answers of the token endpoint.                                          *)
(***************************************************************************)
TokenJson ==
  [access_token |-> "tok", token_type |-> "bearer", expires_in |-> 3600,
   refresh_token |-> "rtok", scope |-> "sheets"]

TokenResponses ==
  { [ok |-> TRUE,  status |-> 200, json |-> TRUE,  text |-> "token json"],
    [ok |-> TRUE,  status |-> 200, json |-> FALSE, text |-> "<html>"],
    [ok |-> FALSE, status |-> 400, json |-> TRUE,  text |-> "invalid_grant"],
    [ok |-> FALSE, status |-> 500, json |-> FALSE, text |-> "server error"] }

Init ==
  /\ oauthStatesDefined = FALSE
  /\ oauthStates = << >>
  /\ issued = {}
  /\ now = 0
  /\ ticks = 0
  /\ clientId \in EnvValues("client-id")
  /\ clientSecret \in EnvValues("client-secret")
  /\ reqs = [r \in Reqs |-> IdleReq]
  /\ exchanges = << >>
  /\ mcpApiKey = StrNull
  /\ mcp = NoMcpRequest
  /\ scriptUrl = Null
  /\ secretKey = Null
  /\ toolCalls = 0
  /\ toolCall = NoToolCall
  /\ webhook = << >>

(***************************************************************************)
(* The clock advances.                                                     *)
(***************************************************************************)
Tick ==
  /\ ticks < MaxTicks
  /\ \E d \in TickSteps : now' = now + d
  /\ ticks' = ticks + 1
  /\ UNCHANGED <<toolVars, mcpApiKey, mcp, oauthStatesDefined, oauthStates, issued, clientId,
                 clientSecret, reqs, exchanges>>

(***************************************************************************)
(* Authorization initiator: registers a fresh random state token with its  *)
(* verifier and the current time.  Tokens and verifiers are random values  *)
(* of at least 128 bits, so each is new; the k-th generated token is       *)
(* StateSeq[k] and its verifier VerifierSeq[k].                            *)
(***************************************************************************)
\* variant: a generated token that collides with a stored key is not regenerated
PutOverwrites(state, codeVerifier) ==
  /\ \E k \in DOMAIN StateSeq :
       state = StateSeq[k] /\ codeVerifier = VerifierSeq[k]
  /\ oauthStatesDefined' = TRUE
  /\ oauthStates' = [s \in (DOMAIN oauthStates) \cup {state} |->
                       IF s = state
                         THEN [codeVerifier |-> codeVerifier, timestamp |-> now]
                         ELSE oauthStates[s]]
  /\ issued' = issued \cup {state}
  /\ UNCHANGED <<toolVars, mcpApiKey, mcp, now, ticks, clientId, clientSecret, reqs, exchanges>>

Put(state, codeVerifier) ==
  /\ state \notin issued
  /\ \E k \in DOMAIN StateSeq :
       /\ k = Cardinality(issued) + 1
       /\ state = StateSeq[k]
       /\ codeVerifier = VerifierSeq[k]
  /\ oauthStatesDefined' = TRUE
  /\ oauthStates' = [s \in (DOMAIN oauthStates) \cup {state} |->
                       IF s = state
                         THEN [codeVerifier |-> codeVerifier, timestamp |-> now]
                         ELSE oauthStates[s]]
  /\ issued' = issued \cup {state}
  /\ UNCHANGED <<toolVars, mcpApiKey, mcp, now, ticks, clientId, clientSecret, reqs, exchanges>>

(***************************************************************************)
(* GET, from the arrival of the request to its first await: parameter      *)
(* validation, state lookup, expiry check, configuration check and the     *)
(* sending of the token request.                                           *)
(***************************************************************************)
Finished == {q \in Reqs : reqs[q].pc = "done"}

Start(r, code, state, error, description) ==
  LET storedStateInfo == MapGet(state)
      base == [reqs[r] EXCEPT !.code = code, !.state = state,
                              !.error = error, !.description = description,
                              !.prior = Finished]
      return(resp) == [base EXCEPT !.pc = "done", !.response = resp]
  IN
  /\ reqs[r].pc = "idle"
  /\ \A q \in Reqs : q < r => reqs[q].pc # "idle"   \* ids follow arrival order
  /\ UNCHANGED <<toolVars, mcpApiKey, mcp, oauthStatesDefined, issued, now, ticks, clientId, clientSecret>>
  /\ IF ValidateParams(code, state, error) = "OAuthProviderError" THEN
       /\ reqs' = [reqs EXCEPT ![r] = return(OAuthErrorResponse(error, description))]
       /\ UNCHANGED <<oauthStates, exchanges>>
     ELSE IF ValidateParams(code, state, error) = "MissingParams" THEN
       /\ reqs' = [reqs EXCEPT ![r] = return(MissingParamsResponse(code, state))]
       /\ UNCHANGED <<oauthStates, exchanges>>
     ELSE IF storedStateInfo = Undefined THEN
       /\ reqs' = [reqs EXCEPT ![r] = return(InvalidStateResponse)]
       /\ UNCHANGED <<oauthStates, exchanges>>
     ELSE IF IsExpired(storedStateInfo, now) THEN
       /\ oauthStates' = MapDelete(state)
       /\ reqs' = [reqs EXCEPT ![r] =
                     [return(ExpiredStateResponse) EXCEPT
                        !.storedStateInfo = storedStateInfo]]
       /\ UNCHANGED exchanges
     ELSE IF MissingCredentials(clientId, clientSecret) THEN
       /\ reqs' = [reqs EXCEPT ![r] =
                     [return(NotConfiguredResponse) EXCEPT
                        !.storedStateInfo = storedStateInfo]]
       /\ UNCHANGED <<oauthStates, exchanges>>
     ELSE
       /\ exchanges' = Append(exchanges,
                              [req |-> r, url |-> TokenEndpoint, method |-> "POST",
                               body |-> TokenData(code, storedStateInfo)])
       /\ reqs' = [reqs EXCEPT ![r] =
                     [base EXCEPT !.pc = "fetch",
                                  !.storedStateInfo = storedStateInfo]]
       /\ UNCHANGED oauthStates

(***************************************************************************)
(* The fetch promise settles.                                              *)
(***************************************************************************)
\* variant: the status of the answer is not tested
FetchResolveIgnoresOk(r, tokenResponse) ==
  /\ reqs[r].pc = "fetch"
  /\ reqs' = [reqs EXCEPT ![r].tokenResponse = tokenResponse, ![r].pc = "json"]
  /\ UNCHANGED <<toolVars, mcpApiKey, mcp, oauthStatesDefined, oauthStates, issued, now, ticks,
                 clientId, clientSecret, exchanges>>

\* the token endpoint answers: tokenResponse.ok selects text() or json()
FetchResolve(r, tokenResponse) ==
  /\ reqs[r].pc = "fetch"
  /\ reqs' = [reqs EXCEPT ![r].tokenResponse = tokenResponse,
                          ![r].pc = IF ~tokenResponse.ok THEN "text" ELSE "json"]
  /\ UNCHANGED <<toolVars, mcpApiKey, mcp, oauthStatesDefined, oauthStates, issued, now, ticks,
                 clientId, clientSecret, exchanges>>

\* variant: a failed request is sent once more
FetchRejectRetries(r) ==
  /\ reqs[r].pc = "fetch"
  /\ Cardinality({i \in DOMAIN exchanges : exchanges[i].req = r}) < 2
  /\ exchanges' = Append(exchanges,
                         [req |-> r, url |-> TokenEndpoint, method |-> "POST",
                          body |-> TokenData(reqs[r].code, reqs[r].storedStateInfo)])
  /\ UNCHANGED <<toolVars, mcpApiKey, mcp, oauthStatesDefined, oauthStates, issued, now, ticks,
                 clientId, clientSecret, reqs>>

\* network error: fetch throws, the catch block answers 500
FetchReject(r) ==
  /\ reqs[r].pc = "fetch"
  /\ reqs' = [reqs EXCEPT ![r].pc = "done",
                          ![r].response = CatchResponse("fetch failed")]
  /\ UNCHANGED <<toolVars, mcpApiKey, mcp, oauthStatesDefined, oauthStates, issued, now, ticks,
                 clientId, clientSecret, exchanges>>

\* await tokenResponse.text() of a non-ok answer delivers the body
TextResolve(r) ==
  /\ reqs[r].pc = "text"
  /\ LET errorData == reqs[r].tokenResponse.text IN
       reqs' = [reqs EXCEPT ![r].pc = "done",
                            ![r].errorData = errorData,
                            ![r].response =
                               TokenExchangeFailedResponse(reqs[r].tokenResponse,
                                                           errorData)]
  /\ UNCHANGED <<toolVars, mcpApiKey, mcp, oauthStatesDefined, oauthStates, issued, now, ticks,
                 clientId, clientSecret, exchanges>>

\* await tokenResponse.text() throws (the connection breaks while the body
\* is read), the catch block answers 500
TextReject(r) ==
  /\ reqs[r].pc = "text"
  /\ reqs' = [reqs EXCEPT ![r].pc = "done",
                          ![r].response = CatchResponse("terminated")]
  /\ UNCHANGED <<toolVars, mcpApiKey, mcp, oauthStatesDefined, oauthStates, issued, now, ticks,
                 clientId, clientSecret, exchanges>>

\* variant: the used state is not cleaned up after a successful exchange
JsonResolveKeepsState(r) ==
  /\ reqs[r].pc = "json"
  /\ reqs[r].tokenResponse.json
  /\ reqs' = [reqs EXCEPT ![r].pc = "done",
                          ![r].response = SuccessResponse(TokenJson)]
  /\ UNCHANGED <<toolVars, mcpApiKey, mcp, oauthStatesDefined, oauthStates, issued, now, ticks,
                 clientId, clientSecret, exchanges>>

\* await tokenResponse.json() of an ok answer whose body parses
JsonResolve(r) ==
  /\ reqs[r].pc = "json"
  /\ reqs[r].tokenResponse.json
  /\ oauthStates' = MapDelete(reqs[r].state)
  /\ reqs' = [reqs EXCEPT ![r].pc = "done",
                          ![r].response = SuccessResponse(TokenJson)]
  /\ UNCHANGED <<toolVars, mcpApiKey, mcp, oauthStatesDefined, issued, now, ticks,
                 clientId, clientSecret, exchanges>>

\* variant: a body that is not JSON is passed on as the token result
JsonRejectSucceeds(r) ==
  /\ reqs[r].pc = "json"
  /\ ~reqs[r].tokenResponse.json
  /\ oauthStates' = MapDelete(reqs[r].state)
  /\ reqs' = [reqs EXCEPT ![r].pc = "done",
                          ![r].response = SuccessResponse(TokenJson)]
  /\ UNCHANGED <<toolVars, mcpApiKey, mcp, oauthStatesDefined, issued, now,
                 ticks, clientId, clientSecret, exchanges>>

\* await tokenResponse.json() throws on a body that is not JSON
JsonReject(r) ==
  /\ reqs[r].pc = "json"
  /\ ~reqs[r].tokenResponse.json
  /\ reqs' = [reqs EXCEPT ![r].pc = "done",
                          ![r].response = CatchResponse("Unexpected token")]
  /\ UNCHANGED <<toolVars, mcpApiKey, mcp, oauthStatesDefined, oauthStates, issued, now, ticks,
                 clientId, clientSecret, exchanges>>

Next ==
  \/ Tick
  \/ \E state \in States, codeVerifier \in Verifiers : Put(state, codeVerifier)
  \/ \E r \in Reqs, code \in CodeParams, state \in StateParams,
        error \in ErrorParams :
        \E description \in DescParamsWith(error) :
          Start(r, code, state, error, description)
  \/ \E r \in Reqs, tokenResponse \in TokenResponses : FetchResolve(r, tokenResponse)
  \/ \E r \in Reqs : FetchReject(r)
  \/ \E r \in Reqs : TextResolve(r)
  \/ \E r \in Reqs : TextReject(r)
  \/ \E r \in Reqs : JsonResolve(r)
  \/ \E r \in Reqs : JsonReject(r)

Spec == Init /\ [][Next]_vars

(***************************************************************************)
(* The event loop runs the continuation of every settled promise: once the *)
(* token endpoint has answered, the reading of the body ends (with the     *)
(* body or with an error) and the handler goes on.  Nothing in GET makes   *)
(* the token endpoint answer, a callback arrive or an authorization start. *)
(***************************************************************************)
FairSpec ==
  /\ Spec
  /\ \A r \in Reqs : WF_vars(TextResolve(r) \/ TextReject(r))
  /\ \A r \in Reqs : WF_vars(JsonResolve(r) \/ JsonReject(r))

(***************************************************************************)
(* The /api/mcp route: the API-key gate in front of the MCP handler.       *)
(***************************************************************************)
\* String.prototype.replace with a string pattern: the first occurrence only
RECURSIVE replace(_, _)
replace(str, pattern) ==
  IF str = << >> THEN << >>
  ELSE IF Head(str) = pattern THEN Tail(str)
  ELSE <<Head(str)>> \o replace(Tail(str), pattern)

\* authHeader?.replace('Bearer ', '') || request.headers.get('x-api-key')
providedKey(authHeader, xApiKey) ==
  LET replaced == IF authHeader = StrNull THEN StrNull
                  ELSE replace(authHeader, BearerPrefix)
  IN IF StrTruthy(replaced) THEN replaced ELSE xApiKey

\* variant: only an unset key opens the gate, an empty one is compared
authenticateRequestUnsetOnly(apiKey, authHeader, xApiKey) ==
  IF apiKey = StrNull THEN TRUE
  ELSE providedKey(authHeader, xApiKey) = apiKey

authenticateRequest(apiKey, authHeader, xApiKey) ==
  IF ~StrTruthy(apiKey) THEN TRUE
  ELSE providedKey(authHeader, xApiKey) = apiKey

\* one request: 401 from the gate, or the answer of the MCP handler
authenticatedHandler(authorization, xApiKey) ==
  /\ mcp' = IF ~authenticateRequest(mcpApiKey, authorization, xApiKey)
              THEN [received |-> TRUE, authorization |-> authorization,
                    xApiKey |-> xApiKey, status |-> 401, handlerCalls |-> 0]
              ELSE [received |-> TRUE, authorization |-> authorization,
                    xApiKey |-> xApiKey, status |-> 200, handlerCalls |-> 1]
  /\ UNCHANGED <<toolVars, mcpApiKey, oauthStatesDefined, oauthStates, issued,
                 now, ticks, clientId, clientSecret, reqs, exchanges>>

McpInit ==
  /\ oauthStatesDefined = FALSE
  /\ oauthStates = << >>
  /\ issued = {}
  /\ now = 0
  /\ ticks = 0
  /\ clientId = Null
  /\ clientSecret = Null
  /\ reqs = [r \in Reqs |-> IdleReq]
  /\ exchanges = << >>
  /\ mcpApiKey \in McpApiKeys
  /\ mcp = NoMcpRequest
  /\ scriptUrl = Null
  /\ secretKey = Null
  /\ toolCalls = 0
  /\ toolCall = NoToolCall
  /\ webhook = << >>

McpNext ==
  \E authorization \in HeaderValues, xApiKey \in HeaderValues :
    authenticatedHandler(authorization, xApiKey)

McpSpec == McpInit /\ [][McpNext]_vars

(***************************************************************************)
(* The MCP tools behind the gate.  A tool result is a text (mark "ok" for  *)
(* the check-mark texts, "fail" for the cross-mark texts, "info" for the   *)
(* others) or a thrown Error.  The text is kept as its pieces.             *)
(***************************************************************************)
gateVars == <<oauthStatesDefined, oauthStates, issued, now, ticks, clientId,
              clientSecret, reqs, exchanges, mcpApiKey, mcp>>

\* answers of the webhook
WebhookResponses ==
  { [ok |-> TRUE, status |-> 200, statusText |-> "OK", text |-> "Success",
     json |-> [parses |-> FALSE]],
    [ok |-> TRUE, status |-> 200, statusText |-> "OK", text |-> "{...}",
     json |-> [parses |-> TRUE, success |-> TRUE, message |-> "",
               count |-> 0]],
    [ok |-> TRUE, status |-> 200, statusText |-> "OK", text |-> "{...}",
     json |-> [parses |-> TRUE, success |-> TRUE, message |-> "",
               count |-> 1]],
    [ok |-> TRUE, status |-> 200, statusText |-> "OK", text |-> "{...}",
     json |-> [parses |-> TRUE, success |-> FALSE,
               message |-> "Invalid secret", count |-> 0]],
    [ok |-> FALSE, status |-> 500, statusText |-> "Internal Server Error",
     text |-> "error", json |-> [parses |-> FALSE]] }

Thrown(message) == [kind |-> "throw", mark |-> "fail", text |-> <<message>>]
Text(mark, pieces) == [kind |-> "text", mark |-> mark, text |-> pieces]

OrEmpty(x) == IF Truthy(x) THEN x ELSE ""       \* x || ''

\* variant: only the URL is required
MissingEnvUrlOnly ==
  IF ~Truthy(scriptUrl) THEN "SCRIPT_URL environment variable is not set"
  ELSE Null

\* the two checks at the head of the tools that post to the webhook
MissingEnv ==
  IF ~Truthy(scriptUrl) THEN "SCRIPT_URL environment variable is not set"
  ELSE IF ~Truthy(secretKey) THEN "SECRET_KEY environment variable is not set"
  ELSE Null

AppendPayload(company, role, description, date, source, jobType) ==
  [secret |-> secretKey, company |-> company, role |-> role,
   description |-> OrEmpty(description), date |-> OrEmpty(date),
   source |-> OrEmpty(source), type |-> OrEmpty(jobType)]

LookupPayload(company) ==
  [secret |-> secretKey, action |-> "lookup", company |-> company]

DailyStatsPayload == [secret |-> secretKey, action |-> "daily_stats"]

\* the catch block of each tool
FailureText(tool, errorMessage) ==
  CASE tool = "append_job_row" ->
         Text("fail", <<"Failed to add job to Google Sheet: ">> \o errorMessage)
    [] tool = "test_connection" ->
         Text("fail", <<"Connection test failed: ">> \o errorMessage)
    [] tool = "lookup_jobs" ->
         Text("fail", <<"Failed to lookup jobs: ">> \o errorMessage)
    [] OTHER ->
         Text("fail", <<"Failed to get daily stats: ">> \o errorMessage)

ToolIdle == toolCall.pc \in {"idle", "done"} /\ toolCalls < MaxCalls

Request(tool, method, body) ==
  [call |-> toolCalls + 1, tool |-> tool, url |-> scriptUrl,
   method |-> method, body |-> body]

\* the tools that post: the environment checks, then one POST
append_job_row(company, role, description, date, source, jobType) ==
  /\ ToolIdle
  /\ toolCalls' = toolCalls + 1
  /\ LET base == [NoToolCall EXCEPT !.tool = "append_job_row",
                                    !.args = [company |-> company, role |-> role,
                                              description |-> description,
                                              date |-> date, source |-> source,
                                              jobType |-> jobType]] IN
       IF MissingEnv # Null
         THEN /\ toolCall' = [base EXCEPT !.pc = "done",
                                          !.result = Thrown(MissingEnv)]
              /\ UNCHANGED webhook
         ELSE /\ toolCall' = [base EXCEPT !.pc = "fetch"]
              /\ webhook' = Append(webhook,
                                   Request("append_job_row", "POST",
                                           AppendPayload(company, role, description,
                                                         date, source, jobType)))
  /\ UNCHANGED <<scriptUrl, secretKey, gateVars>>

lookup_jobs(company) ==
  /\ ToolIdle
  /\ toolCalls' = toolCalls + 1
  /\ LET base == [NoToolCall EXCEPT !.tool = "lookup_jobs",
                                    !.args = [company |-> company]] IN
       IF MissingEnv # Null
         THEN /\ toolCall' = [base EXCEPT !.pc = "done",
                                          !.result = Thrown(MissingEnv)]
              /\ UNCHANGED webhook
         ELSE /\ toolCall' = [base EXCEPT !.pc = "fetch"]
              /\ webhook' = Append(webhook,
                                   Request("lookup_jobs", "POST",
                                           LookupPayload(company)))
  /\ UNCHANGED <<scriptUrl, secretKey, gateVars>>

daily_application_stats ==
  /\ ToolIdle
  /\ toolCalls' = toolCalls + 1
  /\ LET base == [NoToolCall EXCEPT !.tool = "daily_application_stats",
                                    !.args = NoBody] IN
       IF MissingEnv # Null
         THEN /\ toolCall' = [base EXCEPT !.pc = "done",
                                          !.result = Thrown(MissingEnv)]
              /\ UNCHANGED webhook
         ELSE /\ toolCall' = [base EXCEPT !.pc = "fetch"]
              /\ webhook' = Append(webhook,
                                   Request("daily_application_stats", "POST",
                                           DailyStatsPayload))
  /\ UNCHANGED <<scriptUrl, secretKey, gateVars>>

health_check ==
  /\ ToolIdle
  /\ toolCalls' = toolCalls + 1
  /\ toolCall' = [NoToolCall EXCEPT
                    !.tool = "health_check", !.pc = "done",
                    !.result =
                       Text("info",
                            <<"Google Sheets MCP Server Health Check:", "OK",
                              IF Truthy(scriptUrl) THEN "Configured" ELSE "Missing",
                              IF Truthy(secretKey) THEN "Configured" ELSE "Missing">>)]
  /\ UNCHANGED <<scriptUrl, secretKey, webhook, gateVars>>

\* variant: the connection test posts to the webhook
test_connectionPosts ==
  /\ ToolIdle
  /\ Truthy(scriptUrl)
  /\ toolCalls' = toolCalls + 1
  /\ toolCall' = [NoToolCall EXCEPT !.tool = "test_connection", !.pc = "fetch"]
  /\ webhook' = Append(webhook, Request("test_connection", "POST",
                                        [secret |-> secretKey]))
  /\ UNCHANGED <<scriptUrl, secretKey, gateVars>>

test_connection ==
  /\ ToolIdle
  /\ toolCalls' = toolCalls + 1
  /\ LET base == [NoToolCall EXCEPT !.tool = "test_connection"] IN
       IF ~Truthy(scriptUrl)
         THEN /\ toolCall' =
                   [base EXCEPT !.pc = "done",
                                !.result =
                                   Text("fail", <<"Cannot test connection: SCRIPT_URL not configured">>)]
              /\ UNCHANGED webhook
         ELSE /\ toolCall' = [base EXCEPT !.pc = "fetch"]
              /\ webhook' = Append(webhook,
                                   Request("test_connection", "OPTIONS", NoBody))
  /\ UNCHANGED <<scriptUrl, secretKey, gateVars>>

\* variant: any answer of the webhook counts as delivered
ToolFetchResolveIgnoresOk(response) ==
  /\ toolCall.pc = "fetch"
  /\ toolCall' = [toolCall EXCEPT !.response = response, !.pc = "text"]
  /\ UNCHANGED <<scriptUrl, secretKey, toolCalls, webhook, gateVars>>

\* the webhook answers
ToolFetchResolve(response) ==
  /\ toolCall.pc = "fetch"
  /\ toolCall' =
       IF toolCall.tool = "test_connection"
         THEN [toolCall EXCEPT
                 !.response = response, !.pc = "done",
                 !.result = Text("info",
                                 <<"Connection test result:", scriptUrl,
                                   ToString(response.status),
                                   IF response.ok THEN "Yes" ELSE "No">>)]
       ELSE IF ~response.ok
         THEN [toolCall EXCEPT
                 !.response = response, !.pc = "done",
                 !.result = FailureText(toolCall.tool,
                                        <<"Google Apps Script request failed: ",
                                          ToString(response.status),
                                          response.statusText>>)]
       ELSE [toolCall EXCEPT
               !.response = response,
               !.pc = IF toolCall.tool = "append_job_row" THEN "text" ELSE "json"]
  /\ UNCHANGED <<scriptUrl, secretKey, toolCalls, webhook, gateVars>>

\* network error: fetch throws inside the try block
ToolFetchReject ==
  /\ toolCall.pc = "fetch"
  /\ toolCall' = [toolCall EXCEPT
                    !.pc = "done",
                    !.result = FailureText(toolCall.tool, <<"fetch failed">>)]
  /\ UNCHANGED <<scriptUrl, secretKey, toolCalls, webhook, gateVars>>

\* append_job_row: await response.text()
ToolTextResolve ==
  /\ toolCall.pc = "text"
  /\ toolCall' = [toolCall EXCEPT
                    !.pc = "done",
                    !.result = Text("ok",
                                    <<"Job successfully added to Google Sheet!",
                                      "Response: ", toolCall.response.text>>)]
  /\ UNCHANGED <<scriptUrl, secretKey, toolCalls, webhook, gateVars>>

ToolTextReject ==
  /\ toolCall.pc = "text"
  /\ toolCall' = [toolCall EXCEPT
                    !.pc = "done",
                    !.result = FailureText(toolCall.tool, <<"terminated">>)]
  /\ UNCHANGED <<scriptUrl, secretKey, toolCalls, webhook, gateVars>>

\* the text lookup_jobs builds from responseData
LookupText(company, responseData) ==
  IF ~responseData.success
    THEN Text("fail", <<"Lookup failed: ", responseData.message>>)
  ELSE IF responseData.count = 0
    THEN Text("info", <<"No job applications found for ", company>>)
  ELSE Text("info", <<"Found job application(s) for ", company,
                      ToString(responseData.count)>>)

\* the text daily_application_stats builds from responseData
DailyStatsText(responseData) ==
  IF ~responseData.success
    THEN Text("fail", <<"Daily stats failed: ", responseData.message>>)
  ELSE IF responseData.count = 0
    THEN Text("info", <<"Applications submitted today: 0">>)
  ELSE Text("info",
            <<"Total applications submitted today: ",
              ToString(responseData.count),
              IF responseData.count >= 5 THEN "Great job!"
              ELSE IF responseData.count >= 3 THEN "Good work!"
              ELSE "Nice start!">>)

\* lookup_jobs, daily_application_stats: await response.json()
ToolJsonResolve ==
  /\ toolCall.pc = "json"
  /\ toolCall.response.json.parses
  /\ toolCall' = [toolCall EXCEPT
                    !.pc = "done",
                    !.result =
                       IF toolCall.tool = "lookup_jobs"
                         THEN LookupText(toolCall.args.company,
                                         toolCall.response.json)
                         ELSE DailyStatsText(toolCall.response.json)]
  /\ UNCHANGED <<scriptUrl, secretKey, toolCalls, webhook, gateVars>>

ToolJsonReject ==
  /\ toolCall.pc = "json"
  /\ ~toolCall.response.json.parses
  /\ toolCall' = [toolCall EXCEPT
                    !.pc = "done",
                    !.result = FailureText(toolCall.tool, <<"Unexpected token">>)]
  /\ UNCHANGED <<scriptUrl, secretKey, toolCalls, webhook, gateVars>>

ToolInit ==
  /\ oauthStatesDefined = FALSE
  /\ oauthStates = << >>
  /\ issued = {}
  /\ now = 0
  /\ ticks = 0
  /\ clientId = Null
  /\ clientSecret = Null
  /\ reqs = [r \in Reqs |-> IdleReq]
  /\ exchanges = << >>
  /\ mcpApiKey = StrNull
  /\ mcp = NoMcpRequest
  /\ scriptUrl \in ScriptUrls
  /\ secretKey \in SecretKeys
  /\ toolCalls = 0
  /\ toolCall = NoToolCall
  /\ webhook = << >>

ToolNext ==
  \/ \E company \in Companies, role \in Roles, description \in Descriptions,
        date \in Dates, source \in Sources, jobType \in JobTypes :
        append_job_row(company, role, description, date, source, jobType)
  \/ \E company \in Companies : lookup_jobs(company)
  \/ daily_application_stats
  \/ health_check
  \/ test_connection
  \/ \E response \in WebhookResponses : ToolFetchResolve(response)
  \/ ToolFetchReject
  \/ ToolTextResolve
  \/ ToolTextReject
  \/ ToolJsonResolve
  \/ ToolJsonReject

ToolSpec == ToolInit /\ [][ToolNext]_vars

(***************************************************************************)
(* Vocabulary of the properties.                                           *)
(***************************************************************************)
\* the terminal outcome a response stands for
Outcome(resp) ==
  IF "success" \in DOMAIN resp.body THEN "Success"
  ELSE IF "error" \notin DOMAIN resp.body THEN "None"
  ELSE IF resp.body.error = "OAuth authorization failed" THEN "OAuthProviderError"
  ELSE IF resp.body.error = "Missing required OAuth parameters" THEN "MissingParams"
  ELSE IF resp.body.error = "Invalid or expired OAuth state" THEN "InvalidState"
  ELSE IF resp.body.error = "OAuth state expired" THEN "ExpiredState"
  ELSE IF resp.body.error = "Token exchange failed" THEN "TokenExchangeFailed"
  ELSE IF resp.body.error = "OAuth not configured - missing client credentials"
    THEN "NotConfigured"
  ELSE "ProcessingFailed"

Done(r) == reqs[r].pc = "done"
Received(r) == reqs[r].pc # "idle"
OutcomeOf(r) == Outcome(reqs[r].response)

\* request r carries a code and a state and no error, so it reaches the lookup
ReachesLookup(r) ==
  /\ Received(r)
  /\ reqs[r].error \in {Null, ""}
  /\ reqs[r].code \notin {Null, ""}
  /\ reqs[r].state \notin {Null, ""}

\* r observed an entry at its lookup
ObservedEntry(r) == ReachesLookup(r) /\ reqs[r].storedStateInfo # Undefined

\* the token requests sent on behalf of r
ExchangesOf(r) == {i \in DOMAIN exchanges : exchanges[i].req = r}
\* the token requests sent for state token s
ExchangesFor(s) == {i \in DOMAIN exchanges : reqs[exchanges[i].req].state = s}

\* r has a token request that the endpoint has not answered, or is processing
\* its answer
InExchange(r) == reqs[r].pc \in {"fetch", "text", "json"}

\* q was received after r had returned its response
Later(q, r) == Received(q) /\ r \in reqs[q].prior
\* q and r were both received and neither returned before the other arrived
Concurrent(q, r) ==
  /\ q # r /\ Received(q) /\ Received(r)
  /\ r \notin reqs[q].prior /\ q \notin reqs[r].prior

\* the step receives request r
Receives(r) == reqs[r].pc = "idle" /\ reqs'[r].pc # "idle"

(***************************************************************************)
(* C1: of two concurrent callbacks with the same state value exactly one   *)
(* observes the stored entry and goes on to the token exchange; the other  *)
(* observes no entry and ends in InvalidState.                             *)
(***************************************************************************)
C1_AtomicTake ==
  \A q, r \in Reqs :
    (Concurrent(q, r) /\ ReachesLookup(q) /\ ReachesLookup(r)
       /\ reqs[q].state = reqs[r].state /\ ObservedEntry(q))
    => (~ObservedEntry(r) /\ OutcomeOf(r) = "InvalidState")

(***************************************************************************)
(* C2: while a callback for state s has a token exchange outstanding, the  *)
(* store holds no entry for s.                                             *)
(***************************************************************************)
C2_ConsumedBeforeExchange ==
  \A r \in Reqs :
    InExchange(r) => ~(oauthStatesDefined /\ reqs[r].state \in DOMAIN oauthStates)

(***************************************************************************)
(* C3: a callback whose token exchange is answered with a non-success      *)
(* status returns TokenExchangeFailed, and every later callback with the   *)
(* same state returns InvalidState without a new token request.            *)
(***************************************************************************)
C3_FailedExchangeConsumes ==
  \A r \in Reqs :
    /\ (Done(r) /\ reqs[r].tokenResponse # Undefined /\ ~reqs[r].tokenResponse.ok
           /\ reqs[r].errorData # Null)
         => OutcomeOf(r) = "TokenExchangeFailed"
    /\ OutcomeOf(r) = "TokenExchangeFailed" =>
         \A q \in Reqs :
           (Later(q, r) /\ ReachesLookup(q) /\ reqs[q].state = reqs[r].state)
           => (OutcomeOf(q) = "InvalidState" /\ ExchangesOf(q) = {})

(***************************************************************************)
(* C4: after a callback with state s has returned Success, every later     *)
(* callback with state s sends no token request, and returns InvalidState  *)
(* when it carries a code and no error.                                    *)
(***************************************************************************)
C4_SuccessConsumes ==
  \A r, q \in Reqs :
    (OutcomeOf(r) = "Success" /\ Later(q, r) /\ reqs[q].state = reqs[r].state)
    => /\ ExchangesOf(q) = {}
       /\ ReachesLookup(q) =>
            (Done(q) /\ OutcomeOf(q) = "InvalidState" /\ reqs[q].response.status = 400)
       /\ ~(oauthStatesDefined /\ reqs[r].state \in DOMAIN oauthStates)

C4_Witness ==
  \E r, q \in Reqs :
    /\ OutcomeOf(r) = "Success" /\ reqs[r].response.body.tokens.access_token = "tok"
    /\ Later(q, r) /\ reqs[q].state = reqs[r].state
    /\ ReachesLookup(q) /\ OutcomeOf(q) = "InvalidState"

(***************************************************************************)
(* C5: a state entry is used once: at most one token request is ever sent  *)
(* per inserted entry, and only the first lookup of its state value        *)
(* observes the entry.                                                     *)
(***************************************************************************)
C5_SingleUse ==
  \A s \in States :
    /\ Cardinality(ExchangesFor(s)) <= 1
    /\ Cardinality({r \in Reqs : ObservedEntry(r) /\ reqs[r].state = s}) <= 1

\* the store holds an entry for state token s
Stored(s) == oauthStatesDefined /\ s \in DOMAIN oauthStates
\* the entry of s was created more than the TTL ago
PastTTL(s) == Stored(s) /\ now - oauthStates[s].timestamp > 600000

(***************************************************************************)
(* C6: a callback whose entry was created more than 10 minutes before the  *)
(* lookup ends in ExpiredState and removes the entry, and a later callback *)
(* with the same state ends in InvalidState.                               *)
(***************************************************************************)
C6_ExpiredThenInvalid ==
  /\ [][\A r \in Reqs :
          (Receives(r) /\ ReachesLookup(r)' /\ PastTTL(reqs'[r].state))
          => /\ Done(r)' /\ OutcomeOf(r)' = "ExpiredState"
             /\ reqs'[r].response.status = 400
             /\ reqs'[r].state \notin DOMAIN oauthStates']_vars
  /\ [](\A r, q \in Reqs :
          OutcomeOf(r) = "ExpiredState" =>
            /\ ~Stored(reqs[r].state)
            /\ (Later(q, r) /\ ReachesLookup(q) /\ reqs[q].state = reqs[r].state)
                 => (Done(q) /\ OutcomeOf(q) = "InvalidState"))

C6_Witness ==
  \E r, q \in Reqs :
    /\ OutcomeOf(r) = "ExpiredState"
    /\ Later(q, r) /\ ReachesLookup(q) /\ reqs[q].state = reqs[r].state
    /\ OutcomeOf(q) = "InvalidState"

(***************************************************************************)
(* C7: no token request is sent on behalf of an expired entry: a callback  *)
(* whose entry is older than 10 minutes at the lookup ends in ExpiredState *)
(* and the list of token requests is as it was.                            *)
(***************************************************************************)
C7_NoExchangeForExpired ==
  /\ [][\A r \in Reqs :
          (Receives(r) /\ ReachesLookup(r)' /\ PastTTL(reqs'[r].state))
          => (exchanges' = exchanges /\ ~InExchange(r)')]_vars
  /\ [](\A r \in Reqs : OutcomeOf(r) = "ExpiredState" => ExchangesOf(r) = {})

C7_Witness ==
  \E r \in Reqs :
    /\ OutcomeOf(r) = "ExpiredState" /\ ExchangesOf(r) = {}
    /\ Truthy(clientId) /\ Truthy(clientSecret)

(***************************************************************************)
(* C8, as stated: whenever the error parameter is present, the callback    *)
(* ends in OAuthProviderError with status 400, carrying error and          *)
(* error_description, without looking up the store or sending a token      *)
(* request.                                                                *)
(***************************************************************************)
C8_ErrorPresentFirst ==
  \A r \in Reqs :
    (Received(r) /\ reqs[r].error # Null)
    => /\ Done(r) /\ OutcomeOf(r) = "OAuthProviderError"
       /\ reqs[r].response.status = 400
       /\ reqs[r].storedStateInfo = Undefined
       /\ ExchangesOf(r) = {}

(***************************************************************************)
(* C8, amended: whenever the error parameter is present and not empty, the *)
(* callback ends in OAuthProviderError with status 400, carrying error and *)
(* error_description, whatever code and state are, and the store and the   *)
(* list of token requests are as they were.                                *)
(***************************************************************************)
C8_ErrorNonEmptyFirst ==
  /\ [](\A r \in Reqs :
          (Received(r) /\ reqs[r].error \notin {Null, ""})
          => /\ Done(r) /\ OutcomeOf(r) = "OAuthProviderError"
             /\ reqs[r].response.status = 400
             /\ reqs[r].response.body.details = reqs[r].error
             /\ reqs[r].response.body.description = reqs[r].description
             /\ reqs[r].storedStateInfo = Undefined
             /\ ExchangesOf(r) = {})
  /\ [][\A r \in Reqs :
          (Receives(r) /\ reqs'[r].error \notin {Null, ""})
          => UNCHANGED <<oauthStatesDefined, oauthStates, exchanges>>]_vars

\* an error callback that also carries a code and the state of a stored entry
C8_Witness ==
  \E r \in Reqs :
    /\ reqs[r].error = "access_denied" /\ reqs[r].code = "c1"
    /\ Stored(reqs[r].state)
    /\ OutcomeOf(r) = "OAuthProviderError"

(***************************************************************************)
(* C9: with no error parameter, a callback whose code or state is missing  *)
(* (absent or empty) ends in MissingParams with status 400 and reports for *)
(* each of the two fields whether it is missing; the store and the list of *)
(* token requests are as they were.                                        *)
(***************************************************************************)
C9_MissingParams ==
  /\ [](\A r \in Reqs :
          (Received(r) /\ reqs[r].error = Null
             /\ (reqs[r].code \in {Null, ""} \/ reqs[r].state \in {Null, ""}))
          => /\ Done(r) /\ OutcomeOf(r) = "MissingParams"
             /\ reqs[r].response.status = 400
             /\ reqs[r].response.body.missing.code = (reqs[r].code \in {Null, ""})
             /\ reqs[r].response.body.missing.state = (reqs[r].state \in {Null, ""})
             /\ ExchangesOf(r) = {})
  /\ [][\A r \in Reqs :
          (Receives(r) /\ reqs'[r].error = Null
             /\ (reqs'[r].code \in {Null, ""} \/ reqs'[r].state \in {Null, ""}))
          => UNCHANGED <<oauthStatesDefined, oauthStates, exchanges>>]_vars

\* a callback without code for a stored state, reported as code missing only
C9_Witness ==
  \E r \in Reqs :
    /\ reqs[r].error = Null /\ reqs[r].code = Null /\ Stored(reqs[r].state)
    /\ OutcomeOf(r) = "MissingParams"
    /\ reqs[r].response.body.missing = [code |-> TRUE, state |-> FALSE]

(***************************************************************************)
(* C10: a callback with code and state whose state value has no entry in   *)
(* the store ends in InvalidState with status 400; the store and the list  *)
(* of token requests are as they were.                                     *)
(***************************************************************************)
C10_UnknownState ==
  [][\A r \in Reqs :
       (Receives(r) /\ ReachesLookup(r)' /\ ~Stored(reqs'[r].state))
       => /\ Done(r)' /\ OutcomeOf(r)' = "InvalidState"
          /\ reqs'[r].response.status = 400
          /\ UNCHANGED <<oauthStatesDefined, oauthStates, exchanges>>]_vars

\* a foreign state is rejected while the store holds another entry
C10_Witness ==
  \E r \in Reqs :
    /\ ReachesLookup(r) /\ OutcomeOf(r) = "InvalidState"
    /\ ~Stored(reqs[r].state)
    /\ \E s \in States : Stored(s)

(***************************************************************************)
(* C11: a non-2xx answer of the token endpoint ends the callback in        *)
(* TokenExchangeFailed with status 400 and the provider's body in the      *)
(* response; a transport failure of the token request ends it in a failure *)
(* with status 500; Success is returned only for an answer with a success  *)
(* status.                                                                 *)
(***************************************************************************)
\* r's token request failed at transport level: fetch threw, or the body of
\* the answer could not be read
TransportFailed(r) ==
  /\ Done(r) /\ ExchangesOf(r) # {}
  /\ \/ reqs[r].tokenResponse = Undefined
     \/ (~reqs[r].tokenResponse.ok /\ reqs[r].errorData = Null)

C11_ExchangeOutcome ==
  \A r \in Reqs :
    /\ (Done(r) /\ reqs[r].tokenResponse # Undefined
          /\ reqs[r].tokenResponse.status \notin 200..299
          /\ reqs[r].errorData # Null)
       => /\ OutcomeOf(r) = "TokenExchangeFailed"
          /\ reqs[r].response.status = 400
          /\ reqs[r].response.body.details = reqs[r].tokenResponse.text
          /\ reqs[r].response.body.status = reqs[r].tokenResponse.status
    /\ TransportFailed(r)
       => (reqs[r].response.status = 500 /\ OutcomeOf(r) # "Success")
    /\ OutcomeOf(r) = "Success"
       => /\ reqs[r].tokenResponse # Undefined
          /\ reqs[r].tokenResponse.status \in 200..299

\* one callback rejected by the provider, another failed at transport level
C11_Witness ==
  \E r, q \in Reqs :
    /\ OutcomeOf(r) = "TokenExchangeFailed"
    /\ reqs[r].response.body.details = "invalid_grant"
    /\ TransportFailed(q) /\ reqs[q].response.status = 500

(***************************************************************************)
(* C13: one callback request sends at most one POST to the token endpoint; *)
(* after a failed or errored exchange it has not sent a second one.        *)
(***************************************************************************)
C13_NoRetry ==
  /\ \A r \in Reqs : Cardinality(ExchangesOf(r)) <= 1
  /\ \A i \in DOMAIN exchanges :
       exchanges[i].method = "POST" /\ exchanges[i].url = TokenEndpoint

\* a callback whose exchange failed and that has ended, with its one request
C13_Witness ==
  \E r \in Reqs :
    /\ Done(r) /\ OutcomeOf(r) \in {"TokenExchangeFailed", "ProcessingFailed"}
    /\ Cardinality(ExchangesOf(r)) = 1

(***************************************************************************)
(* C14: the code_verifier sent in a callback's token request is the        *)
(* codeVerifier stored under that callback's state value, and no response  *)
(* of the handler contains a verifier.                                     *)
(***************************************************************************)
\* the strings a response carries
ResponseStrings(resp) ==
  {resp.body[f] : f \in DOMAIN resp.body \cap {"error", "details", "description",
                                               "message"}}
  \cup (IF "tokens" \in DOMAIN resp.body
          THEN {resp.body.tokens.access_token, resp.body.tokens.token_type,
                resp.body.tokens.refresh_token, resp.body.tokens.scope}
          ELSE {})

C14_VerifierBinding ==
  /\ [][\A r \in Reqs :
          (Receives(r) /\ InExchange(r)')
          => /\ Len(exchanges') = Len(exchanges) + 1
             /\ exchanges'[Len(exchanges')].req = r
             /\ exchanges'[Len(exchanges')].body.code_verifier
                  = oauthStates[reqs'[r].state].codeVerifier
             /\ exchanges'[Len(exchanges')].body.code = reqs'[r].code]_vars
  /\ [](\A r \in Reqs : ResponseStrings(reqs[r].response) \cap Verifiers = {})

\* with two entries stored, the request for the second carries its verifier
C14_Witness ==
  \E i \in DOMAIN exchanges :
    /\ reqs[exchanges[i].req].state = "s2"
    /\ exchanges[i].body.code_verifier = "v2"
    /\ Stored("s1") /\ oauthStates["s1"].codeVerifier = "v1"

(***************************************************************************)
(* C17, as stated: every callback ends in one terminal outcome, which is   *)
(* Success, OAuthProviderError, MissingParams, InvalidState, ExpiredState  *)
(* or TokenExchangeFailed (the 500 answer of a failed token request        *)
(* counted with TokenExchangeFailed).                                      *)
(***************************************************************************)
C17_SixOutcomes ==
  \A r \in Reqs :
    Done(r) => OutcomeOf(r) \in {"Success", "OAuthProviderError", "MissingParams",
                                 "InvalidState", "ExpiredState",
                                 "TokenExchangeFailed", "ProcessingFailed"}

(***************************************************************************)
(* C17, amended: every callback ends in one terminal outcome, which is     *)
(* Success, OAuthProviderError, MissingParams, InvalidState, ExpiredState, *)
(* TokenExchangeFailed (400, or 500 when the token request or the reading  *)
(* of its answer fails) or the configuration failure (500); the response   *)
(* does not change once given, and each outcome has a response of its own, *)
(* given on its path only.                                                 *)
(***************************************************************************)
C17_OneOutcome ==
  /\ [](\A r \in Reqs :
          /\ ~Done(r) => reqs[r].response = NoResponse
          /\ Done(r) =>
               /\ OutcomeOf(r) \in {"Success", "OAuthProviderError", "MissingParams",
                                    "InvalidState", "ExpiredState",
                                    "TokenExchangeFailed", "ProcessingFailed",
                                    "NotConfigured"}
               /\ reqs[r].response.status =
                    (IF OutcomeOf(r) = "Success" THEN 200
                     ELSE IF OutcomeOf(r) \in {"ProcessingFailed", "NotConfigured"}
                       THEN 500 ELSE 400)
               /\ OutcomeOf(r) = "OAuthProviderError"
                    <=> reqs[r].error \notin {Null, ""}
               /\ OutcomeOf(r) = "MissingParams"
                    <=> (reqs[r].error \in {Null, ""}
                           /\ (reqs[r].code \in {Null, ""}
                                 \/ reqs[r].state \in {Null, ""}))
               /\ OutcomeOf(r) = "InvalidState"
                    <=> (ReachesLookup(r) /\ ~ObservedEntry(r))
               /\ OutcomeOf(r) \in {"ExpiredState", "NotConfigured"}
                    <=> (ObservedEntry(r) /\ ExchangesOf(r) = {})
               /\ OutcomeOf(r) = "NotConfigured"
                    => (clientId \in {Null, ""} \/ clientSecret \in {Null, ""})
               /\ OutcomeOf(r) = "ExpiredState" => ~Stored(reqs[r].state)
               /\ OutcomeOf(r) = "TokenExchangeFailed" <=> reqs[r].errorData # Null
               /\ OutcomeOf(r) = "ProcessingFailed"
                    <=> (TransportFailed(r)
                           \/ (reqs[r].tokenResponse # Undefined
                                 /\ reqs[r].tokenResponse.ok
                                 /\ ~reqs[r].tokenResponse.json))
               /\ OutcomeOf(r) = "Success"
                    <=> (reqs[r].tokenResponse # Undefined
                           /\ reqs[r].tokenResponse.ok
                           /\ reqs[r].tokenResponse.json))
  /\ [][\A r \in Reqs : Done(r) => reqs'[r] = reqs[r]]_vars

\* a configuration failure next to a rejected unknown state
C17_Witness ==
  \E r, q \in Reqs :
    /\ Done(r) /\ OutcomeOf(r) = "NotConfigured" /\ reqs[r].response.status = 500
    /\ Done(q) /\ OutcomeOf(q) = "InvalidState"

(***************************************************************************)
(* C18: a step of a callback never inserts an entry, never changes the     *)
(* codeVerifier or the creation time of an entry, removes at most the      *)
(* entry keyed by the state parameter of that callback, and so never       *)
(* brings back a removed entry.                                            *)
(***************************************************************************)
C18_StoreFrame ==
  [][reqs' # reqs =>
       /\ oauthStatesDefined' = oauthStatesDefined
       /\ DOMAIN oauthStates' \subseteq DOMAIN oauthStates
       /\ \A s \in DOMAIN oauthStates' : oauthStates'[s] = oauthStates[s]
       /\ \A s \in DOMAIN oauthStates \ DOMAIN oauthStates' :
            \E r \in Reqs : reqs'[r] # reqs[r] /\ reqs'[r].state = s]_vars

\* the first entry was removed by its callback, the second is as it was put
C18_Witness ==
  /\ "s1" \in issued /\ ~Stored("s1")
  /\ Stored("s2") /\ oauthStates["s2"].codeVerifier = "v2"
  /\ \E r \in Reqs : Done(r) /\ reqs[r].state = "s1"
                       /\ OutcomeOf(r) \in {"Success", "ExpiredState"}

(***************************************************************************)
(* C12: every callback request that was received eventually returns a      *)
(* terminal response; a token request that gets no answer is ended by a    *)
(* timeout.                                                                *)
(***************************************************************************)
C12_EventuallyResponds ==
  \A r \in Reqs : [](Received(r) => <>Done(r))

(***************************************************************************)
(* C15: an entry that has passed its TTL is eventually removed from the    *)
(* store, whether or not a callback presents its state value.              *)
(***************************************************************************)
C15_ExpiredEventuallySwept ==
  \A s \in States : [](PastTTL(s) => <>~Stored(s))

KeyConfigured == StrTruthy(mcpApiKey)
Forwarded == mcp.received /\ mcp.handlerCalls > 0
BearerKey == <<"Bearer ">> \o mcpApiKey

\* C19: with MCP_API_KEY configured, a request reaches the MCP handler only
\* if its Authorization header is "Bearer " followed by the key or its
\* x-api-key header equals the key; every other request gets 401 and the
\* handler is not invoked for it.
C19_OnlyDocumentedHeaders ==
  (KeyConfigured /\ mcp.received) =>
     IF mcp.authorization = BearerKey \/ mcp.xApiKey = mcpApiKey
       THEN TRUE
       ELSE mcp.status = 401 /\ mcp.handlerCalls = 0

\* C20: with MCP_API_KEY configured, a request whose x-api-key header equals
\* the key is authenticated, and so is a request whose Authorization header
\* is "Bearer " followed by the key, whatever the other header holds.
C20_EitherHeaderSuffices ==
  (KeyConfigured /\ mcp.received) =>
     /\ mcp.xApiKey = mcpApiKey => (mcp.status # 401 /\ mcp.handlerCalls = 1)
     /\ mcp.authorization = BearerKey
          => (mcp.status # 401 /\ mcp.handlerCalls = 1)

\* C21: when MCP_API_KEY is unset or empty, every request is authenticated
\* whatever its headers hold: it reaches the MCP handler and gets no 401.
C21_OpenWithoutKey ==
  (~KeyConfigured /\ mcp.received) =>
     (mcp.status # 401 /\ mcp.handlerCalls = 1)

\* an empty key, and a request that carries some other key
C21_Witness ==
  /\ mcpApiKey = << >>
  /\ mcp.received
  /\ mcp.authorization = <<"Bearer ", "k2">>
  /\ mcp.xApiKey = StrNull
  /\ mcp.handlerCalls = 1

(***************************************************************************)
(* The MCP tools.                                                          *)
(***************************************************************************)
PostTools == {"append_job_row", "lookup_jobs", "daily_application_stats"}
SentBy(n) == {i \in DOMAIN webhook : webhook[i].call = n}
Answered == toolCall.response # NoBody
Is2xx(status) == status \in 200..299

\* C22: when SCRIPT_URL or SECRET_KEY is not set, append_job_row,
\* lookup_jobs and daily_application_stats fail with an error that names
\* the missing variable, and send nothing to the webhook.
C22_MissingEnvFails ==
  (toolCall.tool \in PostTools /\ (~Truthy(scriptUrl) \/ ~Truthy(secretKey)))
    => /\ toolCall.pc = "done"
       /\ toolCall.result.kind = "throw"
       /\ toolCall.result.text =
            IF ~Truthy(scriptUrl)
              THEN <<"SCRIPT_URL environment variable is not set">>
              ELSE <<"SECRET_KEY environment variable is not set">>
       /\ SentBy(toolCalls) = {}
       /\ \A i \in DOMAIN webhook : webhook[i].tool \notin PostTools

\* the URL is set, the secret is not, and a lookup was called
C22_Witness ==
  /\ toolCall.tool = "lookup_jobs"
  /\ Truthy(scriptUrl)
  /\ secretKey = Null
  /\ toolCall.pc = "done"

\* C23: health_check sends no request; test_connection sends at most one
\* request per call, with method OPTIONS and without a body, and none when
\* SCRIPT_URL is not configured.
C23_ReadOnlyProbes ==
  /\ \A i \in DOMAIN webhook :
       /\ webhook[i].tool # "health_check"
       /\ webhook[i].tool = "test_connection"
            => /\ webhook[i].method = "OPTIONS"
               /\ webhook[i].body = NoBody
               /\ Truthy(scriptUrl)
       /\ \A j \in DOMAIN webhook :
            (webhook[j].tool = "test_connection"
               /\ webhook[j].call = webhook[i].call) => j = i
  /\ toolCall.tool \in {"health_check", "test_connection"}
       => Cardinality(SentBy(toolCalls)) <= 1

\* a connection test that was answered, followed by a health check
C23_Witness ==
  /\ toolCalls = 2
  /\ toolCall.tool = "health_check"
  /\ toolCall.pc = "done"
  /\ Len(webhook) = 1
  /\ webhook[1].tool = "test_connection"

\* C25: with SCRIPT_URL and SECRET_KEY set, a call of append_job_row sends
\* exactly one POST whose omitted optional fields are empty strings; it
\* reports success only after a 2xx answer, and after any other answer or a
\* network error it returns a failure text, without raising and without a
\* second request.
C25_AppendOnce ==
  (toolCall.tool = "append_job_row" /\ Truthy(scriptUrl) /\ Truthy(secretKey))
    => /\ Cardinality(SentBy(toolCalls)) = 1
       /\ \A i \in SentBy(toolCalls) :
            /\ webhook[i].method = "POST"
            /\ webhook[i].url = scriptUrl
            /\ webhook[i].body.company = toolCall.args.company
            /\ webhook[i].body.role = toolCall.args.role
            /\ webhook[i].body.description =
                 IF toolCall.args.description = Null
                   THEN "" ELSE toolCall.args.description
            /\ webhook[i].body.date =
                 IF toolCall.args.date = Null THEN "" ELSE toolCall.args.date
            /\ webhook[i].body.source =
                 IF toolCall.args.source = Null THEN "" ELSE toolCall.args.source
            /\ webhook[i].body.type =
                 IF toolCall.args.jobType = Null THEN "" ELSE toolCall.args.jobType
       /\ toolCall.pc = "done"
            => /\ toolCall.result.kind = "text"
               /\ toolCall.result.mark \in {"ok", "fail"}
               /\ toolCall.result.mark = "ok"
                    => (Answered /\ Is2xx(toolCall.response.status))
               /\ (~Answered \/ ~Is2xx(toolCall.response.status))
                    => toolCall.result.mark = "fail"

\* a call without description that the webhook answered with 500
C25_Witness ==
  /\ toolCall.tool = "append_job_row"
  /\ toolCall.pc = "done"
  /\ toolCall.args.description = Null
  /\ Answered
  /\ toolCall.response.status = 500
  /\ toolCall.result.mark = "fail"
  /\ Cardinality(SentBy(toolCalls)) = 1

(***************************************************************************)
(* Further properties of the callback.                                     *)
(***************************************************************************)
\* C24: a callback that finds an entry ends in ExpiredState exactly when
\* now - createdAt is strictly greater than 10 minutes; at an age of exactly
\* 10 minutes or less the entry is valid and, with the client credentials
\* configured, the callback sends the token request.
C24_TTLBoundary ==
  [][\A r \in Reqs :
       (Receives(r) /\ ReachesLookup(r)' /\ Stored(reqs'[r].state))
       => LET age == now - oauthStates[reqs'[r].state].timestamp IN
            /\ (age > 600000) <=> (OutcomeOf(r)' = "ExpiredState")
            /\ (age <= 600000 /\ Truthy(clientId) /\ Truthy(clientSecret))
                 => /\ InExchange(r)'
                    /\ Len(exchanges') = Len(exchanges) + 1]_vars

\* request 1 found the entry made at time 600000, so request 2 arrived at
\* 600000 or later; the clock still shows 600000 and request 2 found the
\* entry made at time 0: its age was exactly the TTL
C24_Witness ==
  /\ now = 600000
  /\ InExchange(1) /\ reqs[1].storedStateInfo.timestamp = 600000
  /\ InExchange(2) /\ reqs[2].storedStateInfo.timestamp = 0

\* C26: a callback that finds an entry which has not expired, while the
\* client id or the client secret is not configured, responds 500 "OAuth
\* not configured" and sends no token request.
C26_NotConfigured ==
  [][\A r \in Reqs :
       (/\ Receives(r) /\ ReachesLookup(r)' /\ Stored(reqs'[r].state)
        /\ now - oauthStates[reqs'[r].state].timestamp <= 600000
        /\ (clientId = Null \/ clientSecret = Null))
       => /\ Done(r)'
          /\ reqs'[r].response.status = 500
          /\ reqs'[r].response.body.error =
               "OAuth not configured - missing client credentials"
          /\ exchanges' = exchanges]_vars

\* the client id is set, the secret is not, and a valid callback was refused
C26_Witness ==
  \E r \in Reqs :
    /\ clientId # Null /\ clientSecret = Null
    /\ OutcomeOf(r) = "NotConfigured"
    /\ Stored(reqs[r].state)
    /\ ExchangesOf(r) = {}

\* C27: a callback returns Success only after a 2xx answer of the token
\* endpoint whose body parses as JSON; after a 2xx answer whose body does
\* not parse it responds 500 "Failed to process OAuth callback".
C27_SuccessNeedsJson ==
  \A r \in Reqs :
    /\ OutcomeOf(r) = "Success"
         => /\ reqs[r].tokenResponse # Undefined
            /\ reqs[r].tokenResponse.status \in 200..299
            /\ reqs[r].tokenResponse.json
    /\ (/\ Done(r) /\ reqs[r].tokenResponse # Undefined
        /\ reqs[r].tokenResponse.status \in 200..299
        /\ ~reqs[r].tokenResponse.json)
         => /\ reqs[r].response.status = 500
            /\ reqs[r].response.body.error = "Failed to process OAuth callback"

\* a 200 answer with an HTML body
C27_Witness ==
  \E r \in Reqs :
    /\ Done(r) /\ reqs[r].tokenResponse # Undefined
    /\ reqs[r].tokenResponse.status = 200 /\ ~reqs[r].tokenResponse.json
    /\ reqs[r].response.status = 500

\* C28: a code or state parameter that is present but empty counts as
\* missing: without a provider error the callback ends in MissingParams,
\* reports the empty parameter as missing, and the store is left as it was.
C28_EmptyIsMissing ==
  [][\A r \in Reqs :
       (Receives(r) /\ ~Truthy(reqs'[r].error)
          /\ (reqs'[r].code = "" \/ reqs'[r].state = ""))
       => /\ Done(r)' /\ OutcomeOf(r)' = "MissingParams"
          /\ reqs'[r].response.status = 400
          /\ reqs'[r].code = "" => reqs'[r].response.body.missing.code
          /\ reqs'[r].state = "" => reqs'[r].response.body.missing.state
          /\ reqs'[r].storedStateInfo = Undefined
          /\ UNCHANGED <<oauthStatesDefined, oauthStates, exchanges>>]_vars

\* an empty code for a stored state: the entry stays
C28_Witness ==
  \E r \in Reqs :
    /\ reqs[r].code = "" /\ Stored(reqs[r].state)
    /\ OutcomeOf(r) = "MissingParams"
    /\ reqs[r].response.body.missing = [code |-> TRUE, state |-> FALSE]

\* C29: while the state store has never been initialised, every callback
\* that carries code and state ends in InvalidState with status 400: no
\* exception, no token request.
C29_UninitialisedStore ==
  ~oauthStatesDefined
    => \A r \in Reqs :
         ReachesLookup(r)
           => /\ Done(r)
              /\ reqs[r].response.status = 400
              /\ reqs[r].response.body.error = "Invalid or expired OAuth state"
              /\ ExchangesOf(r) = {}
              /\ exchanges = << >>

\* both callbacks arrived before any authorization was started
C29_Witness ==
  /\ ~oauthStatesDefined
  /\ \A r \in Reqs : ReachesLookup(r) /\ OutcomeOf(r) = "InvalidState"

\* C30: once a callback has returned Success, the store holds no entry for
\* its state value: the entry is deleted before the response is produced.
C30_AbsentAtSuccess ==
  \A r \in Reqs :
    OutcomeOf(r) = "Success"
      => /\ reqs[r].response.status = 200
         /\ reqs[r].state \notin DOMAIN oauthStates

\* one authorization completed while the entry of the other is still stored
C30_Witness ==
  \E r \in Reqs :
    /\ OutcomeOf(r) = "Success"
    /\ reqs[r].state \in issued
    /\ reqs[r].state \notin DOMAIN oauthStates
    /\ DOMAIN oauthStates # {}

=============================================================================
